---- MODULE Spec2Model ----
(***************************************************************************)
(* Model of package aesext (block.go): a wrapper that combines a block     *)
(* cipher, a chaining mode (CBC by default) and PKCS padding.              *)
(*                                                                         *)
(* Go slices are modelled as (backing array, length) pairs over a heap of  *)
(* byte arrays, so that append's in-place growth and the aliasing of the   *)
(* caller's buffers are part of the model.  The capacity of a slice is the *)
(* length of its backing array (all slices start at offset 0).             *)
(***************************************************************************)
EXTENDS Integers, Sequences, FiniteSets, TLC

VARIABLES heap, caller, bb, ret, rt, ncalls, calls, modes

vars == <<heap, caller, bb, ret, rt, ncalls, calls, modes>>

(***************************************************************************)
(* Bounds of the model                                                     *)
(***************************************************************************)
MaxLen == 6          \* longest caller buffer of the wrapper specifications
MaxCalls == 3        \* calls made on one wrapper in the sequential specification
MaxOpts == 1         \* options passed to NewBlockCrypt
MaxPadLen == 2       \* longest data handed to the padding functions alone
MaxConcLen == 3      \* longest buffer of a concurrent caller

\* Spare capacities the caller's buffer may have behind its length.
SpareCaps == {0, 4}
\* Byte patterns the caller's buffers are filled with.
DataSeeds == {1, 198}
\* Byte values of the data handed to the padding functions alone.
PadBytes == {0, 1, 2, 3, 255}
\* Block sizes handed to PCKSPadding alone.
PadBlockSizes == {1, 2, 3, 8, 16, 255, 256, 257, 300}
\* Block sizes of the ciphers newCipher can build.
CipherSizes == {2, 3}
\* Keys: the empty key is rejected by newCipher.
Keys == {<<>>, <<5>>}

(***************************************************************************)
(* Bytes                                                                   *)
(***************************************************************************)
\* Go's conversion byte(n) of an int.
ByteOf(n) == n % 256

RECURSIVE XorBits(_, _, _)
XorBits(a, b, n) ==
    IF n = 0 THEN 0
    ELSE (((a % 2) + (b % 2)) % 2) + (2 * XorBits(a \div 2, b \div 2, n - 1))

Xor(a, b) == XorBits(a, b, 8)

XorBytes(x, y) == [i \in 1..Len(x) |-> Xor(x[i], y[i])]

\* bytes.Repeat([]byte{b}, count)
Repeat(b, count) == [i \in 1..count |-> b]

Fill(n, seed) == [i \in 1..n |-> (seed + (41 * i)) % 256]

(***************************************************************************)
(* Slices over the heap                                                    *)
(***************************************************************************)
NilSlice == [arr |-> "nil", len |-> 0]

Slice(a, n) == [arr |-> a, len |-> n]

Cap(h, s) == IF s.arr = "nil" THEN 0 ELSE Len(h[s.arr])

Bytes(h, s) == IF s.arr = "nil" THEN <<>> ELSE SubSeq(h[s.arr], 1, s.len)

\* Writes data over the first Len(data) bytes of the backing array of s.
Store(h, s, data) ==
    [h EXCEPT ![s.arr] = [i \in 1..Len(h[s.arr]) |->
                             IF i <= Len(data) THEN data[i] ELSE h[s.arr][i]]]

\* Go's append(s, extra...): in place when the capacity allows, otherwise
\* into a newly allocated array.
GoAppend(h, s, extra) ==
    LET n == s.len + Len(extra) IN
    IF s.arr # "nil" /\ n <= Cap(h, s)
    THEN [heap |-> Store(h, s, Bytes(h, s) \o extra), res |-> Slice(s.arr, n)]
    ELSE [heap |-> [h EXCEPT !["new"] = Bytes(h, s) \o extra],
          res |-> Slice("new", n)]

(***************************************************************************)
(* Padding                                                                 *)
(***************************************************************************)
\* A padding size that adds nothing to data that already fills its blocks.
PadSizeNoFull(length, blockSize) == (blockSize - (length % blockSize)) % blockSize

PadSize(length, blockSize) == blockSize - (length % blockSize)

\* Padding whose bytes carry the block size instead of the padding size.
PCKSPaddingBlockByte(h, origData, blockSize) ==
    LET padSize == PadSize(origData.len, blockSize)
        padText == Repeat(ByteOf(blockSize), padSize)
    IN  GoAppend(h, origData, padText)

PCKSPadding(h, origData, blockSize) ==
    LET padSize == PadSize(origData.len, blockSize)
        padText == Repeat(ByteOf(padSize), padSize)
    IN  GoAppend(h, origData, padText)

\* Unpadding that rejects a padding size equal to the length.
PCKSUnPaddingGe(h, origData) ==
    LET length == origData.len IN
    IF length = 0
    THEN [res |-> NilSlice, err |-> "ErrUnPaddingOutOfRange"]
    ELSE LET unPadSize == h[origData.arr][length] IN
         IF unPadSize >= length
         THEN [res |-> NilSlice, err |-> "ErrUnPaddingOutOfRange"]
         ELSE [res |-> Slice(origData.arr, length - unPadSize), err |-> "nil"]

\* Unpadding that keeps one byte of the padding.
PCKSUnPaddingKeepOne(h, origData) ==
    LET length == origData.len IN
    IF length = 0
    THEN [res |-> NilSlice, err |-> "ErrUnPaddingOutOfRange"]
    ELSE LET unPadSize == h[origData.arr][length] IN
         IF unPadSize > length
         THEN [res |-> NilSlice, err |-> "ErrUnPaddingOutOfRange"]
         ELSE [res |-> Slice(origData.arr, length - unPadSize + 1), err |-> "nil"]

PCKSUnPadding(h, origData) ==
    LET length == origData.len IN
    IF length = 0
    THEN [res |-> NilSlice, err |-> "ErrUnPaddingOutOfRange"]
    ELSE LET unPadSize == h[origData.arr][length] IN
         IF unPadSize > length
         THEN [res |-> NilSlice, err |-> "ErrUnPaddingOutOfRange"]
         ELSE [res |-> Slice(origData.arr, length - unPadSize), err |-> "nil"]

(***************************************************************************)
(* The cipher primitive and the chaining mode (crypto/cipher)              *)
(***************************************************************************)
NoBlock == [size |-> 0, k |-> 0]

\* newCipher(key): a keyed permutation of blocks of `size` bytes; the empty
\* key is rejected.
NewCipher(size, key) ==
    IF Len(key) = 0
    THEN [block |-> NoBlock, err |-> "ErrKeySize"]
    ELSE [block |-> [size |-> size, k |-> key[1]], err |-> "nil"]

\* cipher.Block.Encrypt: reverses the block and adds the key stream.
BlockEncrypt(block, src) ==
    [i \in 1..block.size |-> (src[block.size + 1 - i] + block.k + i) % 256]

\* cipher.Block.Decrypt, the inverse permutation.
BlockDecrypt(block, src) ==
    [j \in 1..block.size |->
        (src[block.size + 1 - j] + 512 - block.k - (block.size + 1 - j)) % 256]

\* cipher.NewCBCEncrypter / cipher.NewCBCDecrypter: the transform keeps its
\* own copy of the IV as its chaining register.
NewBlockMode(factory, block, ivBytes) ==
    [kind |-> factory, block |-> block, iv |-> ivBytes]

\* One block of BlockMode.CryptBlocks: the output block and the transform
\* with its chaining register advanced.
CryptBlock(mode, src) ==
    IF mode.kind = "NewCBCEncrypter"
    THEN LET dst == BlockEncrypt(mode.block, XorBytes(src, mode.iv))
         IN  [dst |-> dst, mode |-> [mode EXCEPT !.iv = dst]]
    ELSE LET dst == XorBytes(BlockDecrypt(mode.block, src), mode.iv)
         IN  [dst |-> dst, mode |-> [mode EXCEPT !.iv = src]]

\* BlockMode.CryptBlocks(dst, src) over a whole number of blocks.
RECURSIVE CryptBlocks(_, _)
CryptBlocks(mode, src) ==
    IF Len(src) < mode.block.size \/ mode.block.size = 0 THEN <<>>
    ELSE LET step == CryptBlock(mode, SubSeq(src, 1, mode.block.size))
         IN  step.dst \o CryptBlocks(step.mode,
                                     SubSeq(src, mode.block.size + 1, Len(src)))

(***************************************************************************)
(* The wrapper                                                             *)
(***************************************************************************)
NoWrapper ==
    [valid |-> FALSE, block |-> NoBlock, iv |-> NilSlice,
     newEncrypt |-> "nil", newDecrypt |-> "nil"]

WithBlockCodec(newEncrypt, newDecrypt) ==
    [newEncrypt |-> newEncrypt, newDecrypt |-> newDecrypt]

\* Calling the Option returned by WithBlockCodec on bs.
ApplyOption(opt, bs) ==
    [bs EXCEPT !.newEncrypt = opt.newEncrypt, !.newDecrypt = opt.newDecrypt]

\* for _, opt := range opts { opt(bb) }
RECURSIVE ApplyOptions(_, _)
ApplyOptions(opts, bs) ==
    IF opts = <<>> THEN bs
    ELSE ApplyOptions(Tail(opts), ApplyOption(Head(opts), bs))

\* NewBlockCrypt without the check of the IV length.
NewBlockCryptNoIvCheck(key, iv, size, opts) ==
    LET c == NewCipher(size, key) IN
    IF c.err # "nil"
    THEN [bb |-> NoWrapper, err |-> c.err, applied |-> 0]
    ELSE [bb |-> ApplyOptions(opts,
                    [valid |-> TRUE, block |-> c.block, iv |-> iv,
                     newEncrypt |-> "NewCBCEncrypter",
                     newDecrypt |-> "NewCBCDecrypter"]),
          err |-> "nil", applied |-> Len(opts)]

\* NewBlockCrypt(key, iv, newCipher, opts...), newCipher building a cipher of
\* block size `size`.  The wrapper keeps the caller's iv slice itself.
NewBlockCrypt(key, iv, size, opts) ==
    LET c == NewCipher(size, key) IN
    IF c.err # "nil"
    THEN [bb |-> NoWrapper, err |-> c.err, applied |-> 0]
    ELSE IF iv.len # c.block.size
    THEN [bb |-> NoWrapper, err |-> "ErrInvalidIvSize", applied |-> 0]
    ELSE [bb |-> ApplyOptions(opts,
                    [valid |-> TRUE, block |-> c.block, iv |-> iv,
                     newEncrypt |-> "NewCBCEncrypter",
                     newDecrypt |-> "NewCBCDecrypter"]),
          err |-> "nil", applied |-> Len(opts)]

BlockSize(sf) == sf.block.size

\* blockBlock.Encrypt: pad, then encrypt the padded buffer in place.
Encrypt(h, sf, plainText) ==
    LET p == PCKSPadding(h, plainText, BlockSize(sf))
        orig == p.res
        mode == NewBlockMode(sf.newEncrypt, sf.block, Bytes(p.heap, sf.iv))
        out == CryptBlocks(mode, Bytes(p.heap, orig))
    IN  [heap |-> Store(p.heap, orig, out), res |-> orig, err |-> "nil",
         made |-> 1, blocks |-> Len(out) \div BlockSize(sf)]

\* Decrypt that rejects only a length that is not a multiple of the block
\* size.
DecryptNoEmptyCheck(h, sf, cipherText) ==
    LET blockSize == BlockSize(sf) IN
    IF cipherText.len % blockSize # 0
    THEN [heap |-> h, res |-> NilSlice, err |-> "ErrInputNotMultipleBlocks",
          made |-> 0, blocks |-> 0]
    ELSE LET mode == NewBlockMode(sf.newDecrypt, sf.block, Bytes(h, sf.iv))
             out == CryptBlocks(mode, Bytes(h, cipherText))
             h2 == Store(h, cipherText, out)
             u == PCKSUnPadding(h2, cipherText)
         IN  [heap |-> h2, res |-> u.res, err |-> u.err,
              made |-> 1, blocks |-> Len(out) \div blockSize]

\* blockBlock.Decrypt: check the length, decrypt in place, unpad.
Decrypt(h, sf, cipherText) ==
    LET blockSize == BlockSize(sf) IN
    IF cipherText.len = 0 \/ cipherText.len % blockSize # 0
    THEN [heap |-> h, res |-> NilSlice, err |-> "ErrInputNotMultipleBlocks",
          made |-> 0, blocks |-> 0]
    ELSE LET mode == NewBlockMode(sf.newDecrypt, sf.block, Bytes(h, sf.iv))
             out == CryptBlocks(mode, Bytes(h, cipherText))
             h2 == Store(h, cipherText, out)
             u == PCKSUnPadding(h2, cipherText)
         IN  [heap |-> h2, res |-> u.res, err |-> u.err,
              made |-> 1, blocks |-> Len(out) \div blockSize]

(***************************************************************************)
(* The caller: its buffers and the calls it makes                          *)
(***************************************************************************)
AllSeqs(S, n) == UNION {[1..k -> S] : k \in 0..n}

\* Lengths of the IV buffer the caller may hold.
IvLens == CipherSizes \cup {1}
\* Byte patterns of the IV buffer: as first filled, and as refilled later.
IvSeeds == {9}
IvRefills == {77}

Options ==
    {WithBlockCodec("NewCBCDecrypter", "NewCBCEncrypter"),
     WithBlockCodec("NewCBCEncrypter", "NewCBCDecrypter")}

OptSeqs == AllSeqs(Options, MaxOpts)

NoRet(h) ==
    [op |-> "none", arg |-> NilSlice, bs |-> 0, heap0 |-> h, res |-> NilSlice,
     err |-> "nil", made |-> 0, blocks |-> 0, applied |-> 0,
     isRt |-> FALSE, P |-> <<>>, key |-> <<>>, nopts |-> 0]

NoRt == [on |-> FALSE, kind |-> "none", P |-> <<>>, ct |-> NilSlice, bs |-> 0]

NoCaller(h) ==
    [buf |-> NilSlice, iv |-> Slice("iv", Len(h["iv"])), iv0 |-> <<>>, bb0 |-> NoWrapper]

concVars == <<calls, modes>>

\* The caller holds a data buffer (possibly with spare capacity) and an IV
\* buffer; no wrapper is built yet.
Init ==
    /\ \E n \in 0..MaxLen, seed \in DataSeeds, spare \in SpareCaps,
          ivn \in IvLens, ivseed \in IvSeeds :
          /\ heap = [buf |-> Fill(n, seed) \o Repeat(0, spare),
                     iv |-> Fill(ivn, ivseed), new |-> <<>>]
          /\ caller = [NoCaller(heap) EXCEPT !.buf = Slice("buf", n)]
    /\ bb = NoWrapper
    /\ ret = NoRet(heap)
    /\ rt = NoRt
    /\ ncalls = 0
    /\ calls = <<>>
    /\ modes = <<>>

\* The caller hands data to the padding functions alone.
InitPad ==
    /\ \E data \in AllSeqs(PadBytes, MaxPadLen), spare \in SpareCaps :
          /\ heap = [buf |-> data \o Repeat(0, spare), iv |-> <<>>, new |-> <<>>]
          /\ caller = [NoCaller(heap) EXCEPT !.buf = Slice("buf", Len(data))]
    /\ bb = NoWrapper
    /\ ret = NoRet(heap)
    /\ rt = NoRt
    /\ ncalls = 0
    /\ calls = <<>>
    /\ modes = <<>>

NewBlockCryptCall ==
    /\ ~bb.valid
    /\ caller.buf.arr = "buf"
    /\ \E key \in Keys, size \in CipherSizes, opts \in OptSeqs :
          LET r == NewBlockCrypt(key, caller.iv, size, opts) IN
          /\ bb' = r.bb
          /\ caller' = [caller EXCEPT !.iv0 = Bytes(heap, caller.iv), !.bb0 = r.bb]
          /\ ret' = [NoRet(heap) EXCEPT !.op = "NewBlockCrypt", !.arg = caller.iv,
                                        !.bs = size, !.err = r.err,
                                        !.applied = r.applied,
                                        !.key = key, !.nopts = Len(opts)]
    /\ rt' = NoRt
    /\ UNCHANGED <<heap, ncalls, concVars>>

EncryptCall ==
    /\ bb.valid
    /\ ncalls < MaxCalls
    /\ \E plainText \in {caller.buf, Slice("iv", 0)} :
          LET r == Encrypt(heap, bb, plainText) IN
          /\ heap' = r.heap
          /\ ret' = [NoRet(heap) EXCEPT !.op = "Encrypt", !.arg = plainText,
                                        !.bs = BlockSize(bb), !.res = r.res,
                                        !.err = r.err, !.made = r.made,
                                        !.blocks = r.blocks,
                                        !.P = Bytes(heap, plainText)]
          /\ rt' = [on |-> TRUE, kind |-> "Encrypt", P |-> Bytes(heap, plainText),
                    ct |-> r.res, bs |-> BlockSize(bb)]
    /\ ncalls' = ncalls + 1
    /\ UNCHANGED <<caller, bb, concVars>>

DecryptCall ==
    /\ bb.valid
    /\ ncalls < MaxCalls
    /\ \E cipherText \in {caller.buf, caller.iv} \cup
                         (IF rt.on /\ rt.kind = "Encrypt" THEN {rt.ct} ELSE {}) :
          LET r == Decrypt(heap, bb, cipherText) IN
          /\ heap' = r.heap
          /\ ret' = [NoRet(heap) EXCEPT !.op = "Decrypt", !.arg = cipherText,
                                        !.bs = BlockSize(bb), !.res = r.res,
                                        !.err = r.err, !.made = r.made,
                                        !.blocks = r.blocks,
                                        !.isRt = (rt.on /\ rt.kind = "Encrypt"
                                                  /\ cipherText = rt.ct),
                                        !.P = rt.P]
    /\ rt' = NoRt
    /\ ncalls' = ncalls + 1
    /\ UNCHANGED <<caller, bb, concVars>>

PaddingCall ==
    /\ ~bb.valid
    /\ ret.op # "NewBlockCrypt"
    /\ ncalls < MaxCalls
    /\ \E blockSize \in PadBlockSizes :
          LET r == PCKSPadding(heap, caller.buf, blockSize) IN
          /\ heap' = r.heap
          /\ ret' = [NoRet(heap) EXCEPT !.op = "PCKSPadding", !.arg = caller.buf,
                                        !.bs = blockSize, !.res = r.res,
                                        !.P = Bytes(heap, caller.buf)]
          /\ rt' = [on |-> TRUE, kind |-> "PCKSPadding",
                    P |-> Bytes(heap, caller.buf), ct |-> r.res, bs |-> blockSize]
    /\ ncalls' = ncalls + 1
    /\ UNCHANGED <<caller, bb, concVars>>

UnPaddingCall ==
    /\ ncalls < MaxCalls
    /\ \E origData \in {caller.buf} \cup
                       (IF rt.on /\ rt.kind = "PCKSPadding" THEN {rt.ct} ELSE {}) :
          LET r == PCKSUnPadding(heap, origData) IN
          /\ ret' = [NoRet(heap) EXCEPT !.op = "PCKSUnPadding", !.arg = origData,
                                        !.bs = rt.bs, !.res = r.res, !.err = r.err,
                                        !.isRt = (rt.on /\ rt.kind = "PCKSPadding"
                                                  /\ origData = rt.ct),
                                        !.P = rt.P]
    /\ rt' = NoRt
    /\ ncalls' = ncalls + 1
    /\ UNCHANGED <<heap, caller, bb, concVars>>

\* The caller refills the IV buffer it passed to NewBlockCrypt.
CallerWritesIV ==
    /\ bb.valid
    /\ \E seed \in IvRefills :
          /\ heap["iv"] # Fill(Len(heap["iv"]), seed)
          /\ heap' = [heap EXCEPT !["iv"] = Fill(Len(heap["iv"]), seed)]
    /\ ret' = [NoRet(heap) EXCEPT !.op = "CallerWritesIV"]
    /\ rt' = NoRt
    /\ UNCHANGED <<caller, bb, ncalls, concVars>>

Next ==
    \/ NewBlockCryptCall
    \/ EncryptCall
    \/ DecryptCall
    \/ UnPaddingCall
    \/ CallerWritesIV

Spec == Init /\ [][Next]_vars

NextPad ==
    \/ PaddingCall
    \/ UnPaddingCall

SpecPad == InitPad /\ [][NextPad]_vars

(***************************************************************************)
(* Concurrent callers of one wrapper, each on a buffer of its own.  A call *)
(* is split at the points where another caller's steps can interleave: the *)
(* padding or the length check, the creation of the transform, each block  *)
(* of CryptBlocks, and the return.                                         *)
(***************************************************************************)
Callers == {1, 2}

NoMode == NewBlockMode("nil", NoBlock, <<>>)

IdleCall ==
    [pc |-> "idle", op |-> "none", in |-> <<>>, buf |-> <<>>, pos |-> 0,
     res |-> <<>>, err |-> "nil"]

\* A heap in which the caller's own buffer holds data.
OwnHeap(data) == [heap EXCEPT !["buf"] = data, !["new"] = <<>>]

\* One transform, kept with the wrapper, serves every call.
ModeOfShared(c) == 1

\* The transform a call works with: the one it created by sf.newEncrypt or
\* sf.newDecrypt, its own.
ModeOf(c) == c

\* A wrapper was built from a valid key and an IV of the cipher's block size.
InitConc ==
    /\ \E size \in CipherSizes, ivseed \in IvSeeds, key \in Keys, opts \in OptSeqs :
          /\ heap = [buf |-> <<>>, iv |-> Fill(size, ivseed), new |-> <<>>]
          /\ caller = [NoCaller(heap) EXCEPT !.iv0 = heap["iv"]]
          /\ NewBlockCrypt(key, caller.iv, size, opts).err = "nil"
          /\ bb = NewBlockCrypt(key, caller.iv, size, opts).bb
    /\ ret = NoRet(heap)
    /\ rt = NoRt
    /\ ncalls = 0
    /\ calls = [c \in Callers |-> IdleCall]
    /\ modes = [c \in Callers |-> NoMode]

\* Data a caller may pass in a buffer of its own.
CallInputs == {Fill(n, seed) : n \in 0..MaxConcLen, seed \in DataSeeds}

\* Decrypt may also be handed the result of the caller's last Encrypt.
LastCipherText(c) ==
    IF calls[c].pc = "done" /\ calls[c].op = "Encrypt" THEN {calls[c].res} ELSE {}

\* Encrypt, line 87: the plaintext is padded.
StartEncrypt(c) ==
    /\ calls[c].pc \in {"idle", "done"}
    /\ \E plainText \in CallInputs :
          LET p == PCKSPadding(OwnHeap(plainText),
                               Slice("buf", Len(plainText)), BlockSize(bb))
          IN  calls' = [calls EXCEPT ![c] =
                          [IdleCall EXCEPT !.pc = "new", !.op = "Encrypt",
                                           !.in = plainText,
                                           !.buf = Bytes(p.heap, p.res)]]
    /\ UNCHANGED <<heap, caller, bb, ret, rt, ncalls, modes>>

\* Decrypt, lines 94-97: the length of the ciphertext is checked.
StartDecrypt(c) ==
    /\ calls[c].pc \in {"idle", "done"}
    /\ \E cipherText \in CallInputs \cup LastCipherText(c) :
          IF Len(cipherText) = 0 \/ Len(cipherText) % BlockSize(bb) # 0
          THEN calls' = [calls EXCEPT ![c] =
                            [IdleCall EXCEPT !.pc = "done", !.op = "Decrypt",
                                             !.in = cipherText,
                                             !.err = "ErrInputNotMultipleBlocks"]]
          ELSE calls' = [calls EXCEPT ![c] =
                            [IdleCall EXCEPT !.pc = "new", !.op = "Decrypt",
                                             !.in = cipherText,
                                             !.buf = cipherText]]
    /\ UNCHANGED <<heap, caller, bb, ret, rt, ncalls, modes>>

\* Lines 88 and 98: the call creates its transform from the stored cipher
\* and the stored IV.
NewMode(c) ==
    /\ calls[c].pc = "new"
    /\ modes' = [modes EXCEPT ![ModeOf(c)] =
                    NewBlockMode(IF calls[c].op = "Encrypt"
                                 THEN bb.newEncrypt ELSE bb.newDecrypt,
                                 bb.block, Bytes(heap, bb.iv))]
    /\ calls' = [calls EXCEPT ![c].pc = "crypt"]
    /\ UNCHANGED <<heap, caller, bb, ret, rt, ncalls>>

\* CryptBlocks(orig, orig): one block is transformed in place.
CryptStep(c) ==
    /\ calls[c].pc = "crypt"
    /\ calls[c].pos * BlockSize(bb) < Len(calls[c].buf)
    /\ modes[ModeOf(c)].kind # "nil"
    /\ LET B == BlockSize(bb)
           lo == calls[c].pos * B
           step == CryptBlock(modes[ModeOf(c)], SubSeq(calls[c].buf, lo + 1, lo + B))
       IN  /\ calls' = [calls EXCEPT
                           ![c].buf = [i \in 1..Len(calls[c].buf) |->
                                          IF i > lo /\ i <= lo + B
                                          THEN step.dst[i - lo]
                                          ELSE calls[c].buf[i]],
                           ![c].pos = calls[c].pos + 1]
           /\ modes' = [modes EXCEPT ![ModeOf(c)] = step.mode]
    /\ UNCHANGED <<heap, caller, bb, ret, rt, ncalls>>

\* Lines 89 and 99: the buffer is returned, unpadded by Decrypt; the call's
\* transform is dropped.
Return(c) ==
    /\ calls[c].pc = "crypt"
    /\ calls[c].pos * BlockSize(bb) >= Len(calls[c].buf)
    /\ IF calls[c].op = "Encrypt"
       THEN calls' = [calls EXCEPT ![c].pc = "done", ![c].res = calls[c].buf]
       ELSE LET h == OwnHeap(calls[c].buf)
                u == PCKSUnPadding(h, Slice("buf", Len(calls[c].buf)))
            IN  calls' = [calls EXCEPT ![c].pc = "done",
                                       ![c].res = Bytes(h, u.res),
                                       ![c].err = u.err]
    /\ modes' = [modes EXCEPT ![ModeOf(c)] = NoMode]
    /\ UNCHANGED <<heap, caller, bb, ret, rt, ncalls>>

NextConc ==
    \E c \in Callers :
        \/ StartEncrypt(c)
        \/ StartDecrypt(c)
        \/ NewMode(c)
        \/ CryptStep(c)
        \/ Return(c)

SpecConc == InitConc /\ [][NextConc]_vars

(***************************************************************************)
(* Properties of the padding functions (SpecPad)                           *)
(***************************************************************************)

\* C2 as stated: PCKSPadding(D, B) is D followed by padSize = B - (L mod B)
\* bytes, each of value padSize, with padSize in 1..B, so the result length
\* is a positive multiple of B greater than L (a full extra block when L is a
\* multiple of B).
C2_PaddingValueIsPadSize ==
    ret.op = "PCKSPadding" =>
        LET L == ret.arg.len
            B == ret.bs
            padSize == B - (L % B)
            out == Bytes(heap, ret.res)
        IN  /\ out = ret.P \o [i \in 1..padSize |-> padSize]
            /\ padSize \in 1..B
            /\ Len(out) > L /\ Len(out) > 0 /\ Len(out) % B = 0
            /\ (L % B = 0 => padSize = B)

\* C2 amended: PCKSPadding(D, B), B >= 1, is D followed by padSize =
\* B - (L mod B) bytes, each of value padSize mod 256 (padSize itself exactly
\* when padSize <= 255), with padSize in 1..B and the result length a positive
\* multiple of B greater than L.
C2_PaddingValueIsPadSizeByte ==
    ret.op = "PCKSPadding" =>
        LET L == ret.arg.len
            B == ret.bs
            padSize == B - (L % B)
            out == Bytes(heap, ret.res)
        IN  /\ out = ret.P \o [i \in 1..padSize |-> padSize % 256]
            /\ (padSize <= 255 => out = ret.P \o [i \in 1..padSize |-> padSize])
            /\ padSize \in 1..B
            /\ Len(out) > L /\ Len(out) > 0 /\ Len(out) % B = 0
            /\ (L % B = 0 => padSize = B)

\* A full extra block was appended to data that already filled its blocks.
C2_Witness ==
    /\ ret.op = "PCKSPadding"
    /\ ret.arg.len > 0 /\ ret.bs > 1 /\ ret.arg.len % ret.bs = 0
    /\ ret.res.len = ret.arg.len + ret.bs
    /\ Bytes(heap, ret.res)[ret.res.len] = ret.bs

\* C3 as stated: for any data X and any block size B,
\* PCKSUnPadding(PCKSPadding(X, B)) succeeds and returns X.
C3_UnPadInverse ==
    (ret.op = "PCKSUnPadding" /\ ret.isRt) =>
        (ret.err = "nil" /\ Bytes(heap, ret.res) = ret.P)

\* C3 amended: for any data X and any block size B >= 1 whose padding size
\* B - (len(X) mod B) is at most 255 (every B in 1..255),
\* PCKSUnPadding(PCKSPadding(X, B)) succeeds and returns X.
C3_UnPadInverseBytePad ==
    (ret.op = "PCKSUnPadding" /\ ret.isRt
        /\ ret.bs - (Len(ret.P) % ret.bs) <= 255) =>
        (ret.err = "nil" /\ Bytes(heap, ret.res) = ret.P)

\* Padded data was unpadded back to non-empty data.
C3_Witness ==
    /\ ret.op = "PCKSUnPadding" /\ ret.isRt
    /\ ret.bs = 255 /\ Len(ret.P) > 0
    /\ ret.err = "nil" /\ Bytes(heap, ret.res) = ret.P

(***************************************************************************)
(* Properties of the wrapper (Spec)                                        *)
(***************************************************************************)

\* C1: Decrypt(Encrypt(P)) succeeds and returns exactly P, for every
\* plaintext P and every wrapper NewBlockCrypt built.
C1_RoundTrip ==
    (ret.op = "Decrypt" /\ ret.isRt) =>
        (ret.err = "nil" /\ Bytes(heap, ret.res) = ret.P)

\* Decrypt(Encrypt(P)) returns P whenever P does not lie in the IV buffer.
RoundTripOwnBuffer ==
    (ret.op = "Decrypt" /\ ret.isRt /\ ret.arg.arr # "iv") =>
        (ret.err = "nil" /\ Bytes(heap, ret.res) = ret.P)

\* C4: Decrypt of a ciphertext that is empty or not a whole number of blocks
\* fails with ErrInputNotMultipleBlocks before any transform is created or
\* run, returns no data and leaves the caller's buffers unchanged.
C4_DecryptBadLength ==
    (ret.op = "Decrypt" /\ (ret.arg.len = 0 \/ ret.arg.len % ret.bs # 0)) =>
        /\ ret.err = "ErrInputNotMultipleBlocks"
        /\ ret.res = NilSlice
        /\ ret.made = 0 /\ ret.blocks = 0
        /\ heap = ret.heap0

\* Decrypt refused a non-empty buffer that is not a whole number of blocks.
C4_Witness ==
    /\ ret.op = "Decrypt"
    /\ ret.arg.len > 0 /\ ret.arg.len % ret.bs # 0
    /\ ret.err = "ErrInputNotMultipleBlocks"

\* C5: NewBlockCrypt with an IV whose length differs from the block size of
\* the cipher built from the key fails with ErrInvalidIvSize, returns no
\* wrapper and applies no option; a wrapper is returned only when the IV
\* length equals the block size.
C5_InvalidIvSize ==
    ret.op = "NewBlockCrypt" =>
        /\ (Len(ret.key) > 0 /\ ret.arg.len # ret.bs) =>
              (ret.err = "ErrInvalidIvSize" /\ ~bb.valid /\ ret.applied = 0)
        /\ bb.valid => (ret.arg.len = ret.bs /\ ret.err = "nil")

\* NewBlockCrypt refused an IV of the wrong length while options were passed.
C5_Witness ==
    /\ ret.op = "NewBlockCrypt"
    /\ Len(ret.key) > 0 /\ ret.arg.len # ret.bs /\ ret.nopts > 0
    /\ ret.err = "ErrInvalidIvSize" /\ ~bb.valid

\* C6: PCKSUnPadding of data of length L fails with ErrUnPaddingOutOfRange
\* exactly when L = 0 or the last byte exceeds L, and otherwise returns the
\* first L - lastByte bytes; Decrypt of a ciphertext of valid length returns
\* that outcome for the transformed buffer, without partial data on failure.
C6_UnPaddingRange ==
    /\ ret.op = "PCKSUnPadding" =>
          LET L == ret.arg.len
              d == Bytes(heap, ret.arg)
          IN  IF L = 0 \/ d[L] > L
              THEN ret.err = "ErrUnPaddingOutOfRange" /\ ret.res = NilSlice
              ELSE ret.err = "nil" /\ ret.res = Slice(ret.arg.arr, L - d[L])
    /\ (ret.op = "Decrypt" /\ ret.arg.len > 0 /\ ret.arg.len % ret.bs = 0) =>
          LET L == ret.arg.len
              t == Bytes(heap, ret.arg)
          IN  /\ t = CryptBlocks(NewBlockMode(bb.newDecrypt, bb.block,
                                              Bytes(ret.heap0, bb.iv)),
                                 Bytes(ret.heap0, ret.arg))
              /\ IF t[L] > L
                 THEN ret.err = "ErrUnPaddingOutOfRange" /\ ret.res = NilSlice
                 ELSE ret.err = "nil" /\ ret.res = Slice(ret.arg.arr, L - t[L])

\* Decrypt of a whole number of blocks failed on the padding size.
C6_Witness ==
    /\ ret.op = "Decrypt" /\ ret.arg.len > 0 /\ ret.arg.len % ret.bs = 0
    /\ Bytes(heap, ret.arg)[ret.arg.len] > ret.arg.len
    /\ ret.err = "ErrUnPaddingOutOfRange"

\* C7: Encrypt never fails and returns, for a plaintext of length L, a
\* ciphertext of length L + (B - (L mod B)), a positive multiple of B, padding
\* also when L is a multiple of B.
C7_EncryptLength ==
    ret.op = "Encrypt" =>
        LET L == ret.arg.len
            B == ret.bs
        IN  /\ ret.err = "nil"
            /\ ret.res.len = L + (B - (L % B))
            /\ ret.res.len > 0 /\ ret.res.len % B = 0
            /\ Len(Bytes(heap, ret.res)) = ret.res.len
            /\ (L % B = 0 => ret.res.len = L + B)

\* A plaintext that fills its blocks was encrypted to one more block.
C7_Witness ==
    /\ ret.op = "Encrypt"
    /\ ret.arg.len > 0 /\ ret.arg.len % ret.bs = 0
    /\ ret.res.len = ret.arg.len + ret.bs

\* C8: after Encrypt the caller's plaintext buffer and its backing storage
\* are unchanged and the ciphertext returned shares no storage with it.
C8_EncryptLeavesInput ==
    ret.op = "Encrypt" =>
        /\ heap[ret.arg.arr] = ret.heap0[ret.arg.arr]
        /\ ret.res.arr # ret.arg.arr

\* C10: once NewBlockCrypt has succeeded, the stored IV has the length of the
\* block size and the bytes passed at construction, and the stored IV, cipher
\* and factories never change.
C10_StoredIvFixed ==
    bb.valid =>
        /\ bb.iv.len = BlockSize(bb)
        /\ Bytes(heap, bb.iv) = caller.iv0
        /\ bb = caller.bb0

(***************************************************************************)
(* Properties of concurrent calls (SpecConc)                               *)
(***************************************************************************)

\* What a call returns as the first call on a freshly built wrapper.
FirstCall(op, data) ==
    LET h == OwnHeap(data)
        r == IF op = "Encrypt"
             THEN Encrypt(h, bb, Slice("buf", Len(data)))
             ELSE Decrypt(h, bb, Slice("buf", Len(data)))
    IN  [res |-> Bytes(r.heap, r.res), err |-> r.err]

\* C9: under any interleaving of calls by concurrent callers on one wrapper,
\* each on its own buffer, every call returns what it would return as the
\* first call on a freshly built wrapper.
C9_CallsIndependent ==
    \A c \in Callers :
        calls[c].pc = "done" =>
            /\ calls[c].res = FirstCall(calls[c].op, calls[c].in).res
            /\ calls[c].err = FirstCall(calls[c].op, calls[c].in).err

\* A call of several blocks returned while another caller was in the middle
\* of its own blocks.
C9_Witness ==
    /\ calls[1].pc = "done" /\ calls[1].op = "Encrypt" /\ Len(calls[1].res) > BlockSize(bb)
    /\ calls[2].pc = "crypt" /\ calls[2].op = "Decrypt" /\ calls[2].pos = 1
    /\ Len(calls[2].buf) > BlockSize(bb)

====
